---------------------------- MODULE Spec2Model ----------------------------
(***************************************************************************)
(* A model of the graph service: the GraphRepository of                    *)
(* graph_service/repository.py over a property-graph store, and the HTTP   *)
(* routes of graph_service/main.py over that repository.                   *)
(*                                                                         *)
(* The store is the external graph database.  It is modelled by what the   *)
(* repository's Cypher statements do to it: nodes carry one label, the     *)
(* property "id" and a property map; relationships join two nodes (by node *)
(* identity, not by the "id" property), and carry a type, a weight and the *)
(* property "id".  Relationships are kept in the store's order; the order  *)
(* in which a statement scans the nodes is left open (ScanOrders).         *)
(*                                                                         *)
(* Strings that pass through _sanitize_label are sequences of characters;  *)
(* all other strings are atoms.  Property maps never carry the key "id".   *)
(* The request log of main.py (log_ports) is left out: it appends to a     *)
(* file no handler reads.                                                  *)
(***************************************************************************)
EXTENDS Integers, Sequences, FiniteSets, TLC

VARIABLES
    nodes,      \* the store's nodes
    edges,      \* the store's relationships, in store order
    uuid,       \* how many uuid4() values create_edge has drawn
    repo,       \* main.py's global `repo`: "None", "open" or "closed"
    resp,       \* the last call (repository or HTTP) and what it returned
    label_in,   \* input of the sanitizer run
    token,      \* its output, <<>> before the run
    search      \* a search_graph call taken statement by statement

vars == <<nodes, edges, uuid, repo, resp, label_in, token, search>>

(***************************************************************************)
(* Bounds of the model.                                                    *)
(***************************************************************************)
MaxLen == 4
MaxUuid == 2
MaxHubEdges == 51
MaxOthers == 3

(***************************************************************************)
(* Program constants.                                                      *)
(***************************************************************************)
SearchLimit == 50

\* The backtick character (U+0060), the delimiter of a quoted name.
Backtick == "BACKTICK"
Alphabet == {"a", "b", Backtick}
None == "None"
NoResp == [op |-> "init"]
\* No search_graph call in flight.
NoSearch == [pc |-> "idle", start_id |-> None, others |-> 0, states |-> {}, out |-> NoResp]
\* No exception raised by the store driver.
NoExc == "no exception"

Min(a, b) == IF a <= b THEN a ELSE b

(***************************************************************************)
(* _sanitize_label: every backtick of the label doubled, the whole wrapped *)
(* in backticks.                                                           *)
(***************************************************************************)
RECURSIVE replace_backticks(_)
replace_backticks(s) ==
    IF s = <<>> THEN <<>>
    ELSE (IF Head(s) = Backtick THEN <<Backtick, Backtick>> ELSE <<Head(s)>>)
         \o replace_backticks(Tail(s))

sanitize_label(label) == <<Backtick>> \o replace_backticks(label) \o <<Backtick>>

(***************************************************************************)
(* How the store reads a backtick-quoted name interpolated into a          *)
(* statement: the name starts after the opening backtick; a doubled        *)
(* backtick stands for one backtick; a single backtick closes the name.    *)
(***************************************************************************)
RECURSIVE quoted_body(_)
quoted_body(s) ==
    IF s = <<>> THEN <<>>
    ELSE IF Head(s) # Backtick THEN <<Head(s)>> \o quoted_body(Tail(s))
    ELSE IF Len(s) >= 2 /\ s[2] = Backtick THEN <<Backtick>> \o quoted_body(Tail(Tail(s)))
    ELSE <<>>

cypher_name(tok) ==
    IF tok # <<>> /\ Head(tok) = Backtick THEN quoted_body(Tail(tok)) ELSE tok

(***************************************************************************)
(* Store helpers.                                                          *)
(***************************************************************************)
\* A node's identity in the store.  MERGE (n:label {id: $id}) finds a node
\* by its label and its "id" together, so the pair identifies it.
NodeKey(n) == <<n.label, n.id>>

\* The orders in which a statement may scan a set of nodes.
ScanOrders(S) ==
    {f \in [1..Cardinality(S) -> S] :
        \A i, j \in 1..Cardinality(S) : f[i] = f[j] => i = j}

\* MATCH (n {id: $id}): the nodes whose property "id" is id, in each order
\* the scan may yield them.
match_id(ns, id) == ScanOrders({n \in ns : n.id = id})

\* SET n += $properties: the later map over the earlier one, key by key.
merge_props(old, new) ==
    [k \in (DOMAIN old) \cup (DOMAIN new) |->
        IF k \in DOMAIN new THEN new[k] ELSE old[k]]

\* MERGE (n:label {id: $id}) SET n += $properties
merge_node(ns, label, id, props) ==
    IF \E n \in ns : n.label = label /\ n.id = id
    THEN {IF n.label = label /\ n.id = id
          THEN [n EXCEPT !.props = merge_props(n.props, props)]
          ELSE n : n \in ns}
    ELSE ns \cup {[label |-> label, id |-> id, props |-> props]}

\* The rows of MATCH (a {id: $source_id}) MATCH (b {id: $target_id}).
match_pairs(as, bs) ==
    [k \in 1..(Len(as) * Len(bs)) |->
        <<as[((k - 1) \div Len(bs)) + 1], bs[((k - 1) % Len(bs)) + 1]>>]

\* SET r.weight = $weight, r.id = $edge_id on a relationship MERGE found.
set_edge(e, weight, edge_id) == [e EXCEPT !.weight = weight, !.id = edge_id]

\* MERGE (a)-[r:type]->(b) SET r.weight = $weight, r.id = $edge_id, row by row.
RECURSIVE merge_edges(_, _, _, _, _)
merge_edges(es, pairs, type, weight, edge_id) ==
    IF pairs = <<>> THEN es
    ELSE
    LET a == NodeKey(Head(pairs)[1])
        b == NodeKey(Head(pairs)[2])
        hit(e) == e.src = a /\ e.dst = b /\ e.type = type
        es1 == IF \E i \in 1..Len(es) : hit(es[i])
               THEN [i \in 1..Len(es) |->
                       IF hit(es[i]) THEN set_edge(es[i], weight, edge_id)
                       ELSE es[i]]
               ELSE Append(es, [src |-> a, dst |-> b, type |-> type,
                                weight |-> weight, id |-> edge_id])
    IN  merge_edges(es1, Tail(pairs), type, weight, edge_id)

\* MATCH ()-[r]-() WHERE r.id = $edge_id
match_edge_id(es, edge_id) == SelectSeq(es, LAMBDA e : e.id = edge_id)

\* labels[0] if labels else "Unknown"; every node of this store has one label.
first_label(n) == n.label

\* NodeResponse(id, label, properties without "id")
NodeResponse(n) == [id |-> n.id, label |-> first_label(n), properties |-> n.props]

\* What a repository method leaves behind and returns.
Outcome(ns, es, u, out) == [nodes |-> ns, edges |-> es, uuid |-> u, out |-> out]

(***************************************************************************)
(* GraphRepository.create_node                                             *)
(***************************************************************************)
create_node(id, label, properties) ==
    LET tok == sanitize_label(label)
    IN  Outcome(merge_node(nodes, cypher_name(tok), id, properties), edges, uuid,
                [status |-> "created", id |-> id])

(***************************************************************************)
(* GraphRepository.create_edge.  as and bs are the rows of the two MATCH   *)
(* clauses; the k-th uuid4() drawn is written k.                           *)
(***************************************************************************)
create_edge(as, bs, source_id, target_id, type, weight) ==
    LET edge_id  == uuid + 1
        rel_type == cypher_name(sanitize_label(type))
        pairs    == match_pairs(as, bs)
        \* RETURN r.id as edge_id; result.single()
        record   == IF pairs = <<>> THEN <<>> ELSE <<[edge_id |-> edge_id]>>
    IN  Outcome(nodes, merge_edges(edges, pairs, rel_type, weight, edge_id), edge_id,
                [status |-> "created",
                 id     |-> IF record # <<>> THEN record[1].edge_id ELSE edge_id,
                 source |-> source_id,
                 target |-> target_id])

(***************************************************************************)
(* GraphRepository.update_edge: None, or the updated edge's fields.  A     *)
(* returned None is the empty sequence, a returned dict a one-element one. *)
(***************************************************************************)
update_edge(edge_id, type, weight) ==
    LET set_clauses == IF weight # None THEN <<"r.weight = $weight">> ELSE <<>>
        es          == [i \in 1..Len(edges) |->
                           IF edges[i].id = edge_id
                           THEN [edges[i] EXCEPT !.weight = weight]
                           ELSE edges[i]]
        hit         == match_edge_id(es, edge_id)
    IN  IF set_clauses = <<>>
        THEN Outcome(nodes, edges, uuid, <<>>)
        ELSE Outcome(nodes, es, uuid,
                     IF hit = <<>> THEN <<>>
                     ELSE <<[id     |-> hit[1].id,
                             source |-> hit[1].src[2],
                             target |-> hit[1].dst[2],
                             type   |-> hit[1].type,
                             weight |-> hit[1].weight,
                             status |-> "updated"]>>)

(***************************************************************************)
(* GraphRepository.delete_edge                                             *)
(***************************************************************************)
\* A slip: the statement without its WHERE clause.
delete_edge_no_where(edge_id) ==
    Outcome(nodes, <<>>, uuid, [status |-> "deleted", id |-> edge_id])

delete_edge(edge_id) ==
    Outcome(nodes, SelectSeq(edges, LAMBDA e : e.id # edge_id), uuid,
            [status |-> "deleted", id |-> edge_id])

(***************************************************************************)
(* GraphRepository.get_node: None (<<>>) or <<NodeResponse>>.  records are *)
(* the rows of its MATCH; result.single() takes the first.                 *)
(***************************************************************************)
get_node(records, node_id) ==
    Outcome(nodes, edges, uuid,
            IF records # <<>> THEN <<NodeResponse(records[1])>> ELSE <<>>)

(***************************************************************************)
(* GraphRepository.search_graph                                            *)
(***************************************************************************)
\* The node a relationship end names.
node_of(ns, key) == CHOOSE n \in ns : NodeKey(n) = key

\* The rows of (start)-[r]-(neighbor) for one start node: one row for each
\* relationship touching it (a self-loop matches once), in store order.
rows_of(ns, es, start) ==
    LET key      == NodeKey(start)
        touching == SelectSeq(es, LAMBDA e : e.src = key \/ e.dst = key)
    IN  [i \in 1..Len(touching) |->
            LET r == touching[i] IN
            [start     |-> start,
             r         |-> r,
             neighbor  |-> node_of(ns, IF r.src = key THEN r.dst ELSE r.src),
             source_id |-> r.src[2],     \* startNode(r).id
             target_id |-> r.dst[2]]]    \* endNode(r).id

RECURSIVE rows_of_all(_, _, _)
rows_of_all(ns, es, starts) ==
    IF starts = <<>> THEN <<>>
    ELSE rows_of(ns, es, Head(starts)) \o rows_of_all(ns, es, Tail(starts))

\* MATCH (start {id: $start_id})-[r]-(neighbor) RETURN ... LIMIT 50
match_neighbors(starts, ns, es) ==
    LET rows == rows_of_all(ns, es, starts)
    IN  SubSeq(rows, 1, Min(Len(rows), SearchLimit))

\* nodes_map: a dict keyed by node["id"], in insertion order.
map_has(nodes_map, id) == \E i \in 1..Len(nodes_map) : nodes_map[i].id = id

map_add(nodes_map, n) ==
    IF map_has(nodes_map, n.id) THEN nodes_map ELSE Append(nodes_map, NodeResponse(n))

\* A slip: the direction taken from the row (start, then neighbor).
EdgeResponse_row_order(record) ==
    [source |-> record.start.id, target |-> record.neighbor.id, type |-> record.r.type]

\* EdgeResponse(source=source_id, target=target_id, type=rel.type)
EdgeResponse(record) ==
    [source |-> record.source_id, target |-> record.target_id, type |-> record.r.type]

RECURSIVE collect_nodes(_, _)
collect_nodes(nodes_map, records) ==
    IF records = <<>> THEN nodes_map
    ELSE collect_nodes(map_add(map_add(nodes_map, Head(records).start),
                               Head(records).neighbor),
                       Tail(records))

GraphSearchResponse(records) ==
    [nodes         |-> collect_nodes(<<>>, records),
     relationships |-> [i \in 1..Len(records) |-> EdgeResponse(records[i])]]

\* A slip: no look at the start node when no row comes back.
search_graph_no_fallback(starts, start_id) ==
    Outcome(nodes, edges, uuid,
            GraphSearchResponse(match_neighbors(starts, nodes, edges)))

\* The first statement's rows are assembled and dropped; the second
\* statement's rows make the response.  Either statement finding no row
\* answers with the start node alone, if get_node finds it.  starts are the
\* rows of MATCH (start {id: $start_id}).
search_graph(starts, start_id) ==
    LET first   == match_neighbors(starts, nodes, edges)
        records == match_neighbors(starts, nodes, edges)
        alone   == [nodes         |-> get_node(starts, start_id).out,
                    relationships |-> <<>>]
    IN  Outcome(nodes, edges, uuid,
                IF first = <<>> THEN alone
                ELSE IF records = <<>> THEN alone
                ELSE GraphSearchResponse(records))

(***************************************************************************)
(* GraphRepository.delete_node: MATCH (n {id: $id}) DETACH DELETE n        *)
(***************************************************************************)
\* A slip: DELETE without DETACH, the incident relationships left behind.
delete_node_no_detach(node_id) ==
    Outcome({n \in nodes : n.id # node_id}, edges, uuid,
            [status |-> "deleted", id |-> node_id])

delete_node(node_id) ==
    LET gone == {NodeKey(n) : n \in {m \in nodes : m.id = node_id}}
    IN  Outcome({n \in nodes : n.id # node_id},
                SelectSeq(edges, LAMBDA e : e.src \notin gone /\ e.dst \notin gone),
                uuid,
                [status |-> "deleted", id |-> node_id])

(***************************************************************************)
(* Inputs.                                                                 *)
(***************************************************************************)
NodeIds == {"n1", "n2"}
Labels == {<<"a">>, <<Backtick>>}
Types == {<<"b", Backtick>>}
\* EdgeCreate.weight (1.0 is its default) and EdgeUpdate.weight.
Weights == {"1.0"}
OptWeights == {None, "2.5"}
\* EdgeUpdate.type, an Optional[str]: <<>> is None, <<t>> the string t.
OptTypes == {<<>>, <<<<"a">>>>}
PropInputs == {[name |-> "Alice", age |-> "30"], [name |-> "Bob"]}
\* The NodeCreate bodies of the runs that are not about properties: n1 under
\* two labels, n2 under one.
NodeCreates ==
    {[id |-> "n1", label |-> <<"a">>, properties |-> [name |-> "Alice"]],
     [id |-> "n1", label |-> <<Backtick>>, properties |-> [name |-> "Alice"]],
     [id |-> "n2", label |-> <<"a">>, properties |-> [name |-> "Alice"]]}
\* Edge identifiers a caller may pass: 0 was never issued.
EdgeIds == 0..MaxUuid

(***************************************************************************)
(* A call of a repository method: the store takes the method's outcome and *)
(* resp records the call.  found counts what the statement matched in the  *)
(* store before it ran.                                                    *)
(***************************************************************************)
Call(op, args, found, r) ==
    /\ nodes' = r.nodes
    /\ edges' = r.edges
    /\ uuid' = r.uuid
    /\ resp' = [op |-> op, args |-> args, found |-> found, out |-> r.out]
    /\ UNCHANGED <<repo, label_in, token, search>>

CallCreateNode(id, label, properties) ==
    Call("create_node", [id |-> id, label |-> label, properties |-> properties],
         Cardinality({n \in nodes : n.id = id}),
         create_node(id, label, properties))

CallCreateEdge(source_id, target_id, type, weight) ==
    \E as \in match_id(nodes, source_id), bs \in match_id(nodes, target_id) :
        Call("create_edge",
             [source_id |-> source_id, target_id |-> target_id,
              type |-> type, weight |-> weight],
             Len(as) * Len(bs),
             create_edge(as, bs, source_id, target_id, type, weight))

CallUpdateEdge(edge_id, type, weight) ==
    Call("update_edge", [edge_id |-> edge_id, type |-> type, weight |-> weight],
         Len(match_edge_id(edges, edge_id)),
         update_edge(edge_id, type, weight))

CallDeleteEdge(edge_id) ==
    Call("delete_edge", [edge_id |-> edge_id],
         Len(match_edge_id(edges, edge_id)),
         delete_edge(edge_id))

CallGetNode(node_id) ==
    \E records \in match_id(nodes, node_id) :
        Call("get_node", [node_id |-> node_id], Len(records),
             get_node(records, node_id))

CallSearchGraph(start_id) ==
    \E starts \in match_id(nodes, start_id) :
        Call("search_graph", [start_id |-> start_id], Len(starts),
             search_graph(starts, start_id))

CallDeleteNode(node_id) ==
    Call("delete_node", [node_id |-> node_id],
         Cardinality({n \in nodes : n.id = node_id}),
         delete_node(node_id))

Init ==
    /\ nodes = {}
    /\ edges = <<>>
    /\ uuid = 0
    /\ repo = "open"
    /\ resp = NoResp
    /\ label_in = <<>>
    /\ token = <<>>
    /\ search = NoSearch

(***************************************************************************)
(* Spec: the repository's methods called in any order.                     *)
(***************************************************************************)
Next ==
    \/ \E n \in NodeCreates : CallCreateNode(n.id, n.label, n.properties)
    \/ \E s \in NodeIds, t \in NodeIds, ty \in Types, w \in Weights :
          uuid < MaxUuid /\ CallCreateEdge(s, t, ty, w)
    \/ \E e \in EdgeIds, ty \in OptTypes, w \in OptWeights : CallUpdateEdge(e, ty, w)
    \/ \E e \in EdgeIds : CallDeleteEdge(e)
    \/ \E id \in NodeIds : CallGetNode(id)
    \/ \E id \in NodeIds : CallSearchGraph(id)
    \/ \E id \in NodeIds : CallDeleteNode(id)

Spec == Init /\ [][Next]_vars

(***************************************************************************)
(* SpecHub: two nodes and relationships of ever new types between them, so *)
(* that a node comes to have more relationships than LIMIT 50 lets through.*)
(* The first MaxUuid relationships go between any two of the nodes, the    *)
(* later ones from n1 to n2.                                               *)
(***************************************************************************)
\* The i-th relationship type of the hub: i letters.
hub_type(i) == [j \in 1..i |-> "a"]

HubNodeCreates == {n \in NodeCreates : n.label = <<"a">>}

HubNext ==
    \/ \E n \in HubNodeCreates : CallCreateNode(n.id, n.label, n.properties)
    \/ \E s \in NodeIds, t \in NodeIds :
          /\ uuid < MaxHubEdges
          /\ uuid < MaxUuid \/ (s = "n1" /\ t = "n2")
          /\ CallCreateEdge(s, t, hub_type(uuid + 1), "1.0")
    \/ \E id \in NodeIds : CallSearchGraph(id)

SpecHub == Init /\ [][HubNext]_vars

(***************************************************************************)
(* SpecNodes: the node methods alone, over every label and property map.   *)
(***************************************************************************)
NodesNext ==
    \/ \E id \in NodeIds, l \in Labels, p \in PropInputs : CallCreateNode(id, l, p)
    \/ \E id \in NodeIds : CallGetNode(id)
    \/ \E id \in NodeIds : CallDeleteNode(id)

SpecNodes == Init /\ [][NodesNext]_vars

(***************************************************************************)
(* SpecSanitize: _sanitize_label run once on each string of at most MaxLen *)
(* characters.                                                             *)
(***************************************************************************)
Strings == UNION {[1..n -> Alphabet] : n \in 0..MaxLen}

SanitizeInit ==
    /\ nodes = {}
    /\ edges = <<>>
    /\ uuid = 0
    /\ repo = "open"
    /\ resp = NoResp
    /\ label_in \in Strings
    /\ token = <<>>
    /\ search = NoSearch

Sanitize ==
    /\ token = <<>>
    /\ token' = sanitize_label(label_in)
    /\ UNCHANGED <<nodes, edges, uuid, repo, resp, label_in, search>>

SpecSanitize == SanitizeInit /\ [][Sanitize]_vars

(***************************************************************************)
(* The HTTP layer of main.py.  A request carries exc, the exception the    *)
(* store driver raises when the repository method runs its statement       *)
(* (NoExc: none); the statement then changes nothing.                      *)
(***************************************************************************)
Excs == {NoExc, "ServiceUnavailable"}
NoDetail == "no detail field"

\* The routes the app registers: method and path.
Routes == {<<"POST", "/nodes">>,
           <<"GET", "/nodes/{node_id}">>,
           <<"DELETE", "/nodes/{node_id}">>,
           <<"POST", "/edges">>,
           <<"GET", "/search/graph">>}

\* What a handler leaves behind and answers.
Answer(r, status, detail) ==
    [nodes |-> r.nodes, edges |-> r.edges, uuid |-> r.uuid,
     status |-> status, detail |-> detail, body |-> r.out]

Unchanged == Outcome(nodes, edges, uuid, <<>>)

\* get_repo: raise HTTPException(503) if not repo.
get_repo == IF repo = "None"
            THEN <<Answer(Unchanged, 503, "Database not initialized")>>
            ELSE <<>>

\* try: return repository.method(...)
\* except Exception as e: raise HTTPException(status_code=500, detail=str(e))
try_except(exc, r) ==
    IF exc # NoExc THEN Answer(Unchanged, 500, exc) ELSE Answer(r, 200, NoDetail)

\* An exception no handler catches: the framework's bare 500.
unhandled(exc) == Answer(Unchanged, 500, NoDetail)

route_create_node(node, exc) ==
    IF get_repo # <<>> THEN get_repo[1]
    ELSE try_except(exc, create_node(node.id, node.label, node.properties))

route_get_node(records, node_id, exc) ==
    IF get_repo # <<>> THEN get_repo[1]
    ELSE IF exc # NoExc THEN unhandled(exc)
    ELSE LET r == get_node(records, node_id)
         IN  IF r.out = <<>> THEN Answer(Unchanged, 404, "Node not found")
             ELSE Answer(r, 200, NoDetail)

route_delete_node(node_id, exc) ==
    IF get_repo # <<>> THEN get_repo[1]
    ELSE try_except(exc, delete_node(node_id))

route_create_edge(as, bs, edge, exc) ==
    IF get_repo # <<>> THEN get_repo[1]
    ELSE try_except(exc, create_edge(as, bs, edge.source_id, edge.target_id,
                                     edge.type, edge.weight))

route_search_graph(starts, start_id, exc) ==
    IF get_repo # <<>> THEN get_repo[1]
    ELSE try_except(exc, search_graph(starts, start_id))

\* A request no route matches: 405 when the path is a route's under another
\* method, 404 otherwise.
no_route(method, path) ==
    Answer(Unchanged, IF \E r \in Routes : r[2] = path THEN 405 ELSE 404,
           IF \E r \in Routes : r[2] = path THEN "Method Not Allowed" ELSE "Not Found")

Request(method, path, args, exc, a) ==
    /\ repo # "closed"
    /\ nodes' = a.nodes
    /\ edges' = a.edges
    /\ uuid' = a.uuid
    /\ resp' = [op |-> "request", route |-> <<method, path>>, args |-> args, exc |-> exc,
                status |-> a.status, detail |-> a.detail, body |-> a.body]
    /\ UNCHANGED <<repo, label_in, token, search>>

\* lifespan: repo = GraphRepository() before the first request ...
lifespan_startup ==
    /\ repo = "None"
    /\ repo' = "open"
    /\ resp' = [op |-> "startup"]
    /\ UNCHANGED <<nodes, edges, uuid, label_in, token, search>>

\* ... and repo.close() after the last.
lifespan_shutdown ==
    /\ repo = "open"
    /\ repo' = "closed"
    /\ resp' = [op |-> "shutdown"]
    /\ UNCHANGED <<nodes, edges, uuid, label_in, token, search>>

EdgeCreates ==
    [source_id : NodeIds, target_id : NodeIds, type : Types, weight : Weights]

HttpInit ==
    /\ nodes = {}
    /\ edges = <<>>
    /\ uuid = 0
    /\ repo = "None"
    /\ resp = NoResp
    /\ label_in = <<>>
    /\ token = <<>>
    /\ search = NoSearch

HttpNext ==
    \/ lifespan_startup
    \/ lifespan_shutdown
    \/ \E n \in HubNodeCreates, x \in Excs :
          Request("POST", "/nodes", n, x, route_create_node(n, x))
    \/ \E id \in NodeIds, x \in Excs : \E records \in match_id(nodes, id) :
          Request("GET", "/nodes/{node_id}", [node_id |-> id], x,
                  route_get_node(records, id, x))
    \/ \E id \in NodeIds, x \in Excs :
          Request("DELETE", "/nodes/{node_id}", [node_id |-> id], x,
                  route_delete_node(id, x))
    \/ \E e \in EdgeCreates, x \in Excs :
       \E as \in match_id(nodes, e.source_id), bs \in match_id(nodes, e.target_id) :
          /\ uuid < MaxUuid
          /\ Request("POST", "/edges", e, x, route_create_edge(as, bs, e, x))
    \/ \E id \in NodeIds, x \in Excs : \E starts \in match_id(nodes, id) :
          Request("GET", "/search/graph", [start_id |-> id], x,
                  route_search_graph(starts, id, x))
    \/ \E e \in EdgeIds, w \in OptWeights :
          Request("PUT", "/edges/{edge_id}", [edge_id |-> e, weight |-> w], NoExc,
                  no_route("PUT", "/edges/{edge_id}"))
    \/ \E e \in EdgeIds :
          Request("DELETE", "/edges/{edge_id}", [edge_id |-> e], NoExc,
                  no_route("DELETE", "/edges/{edge_id}"))

SpecHttp == HttpInit /\ [][HttpNext]_vars

(***************************************************************************)
(* SpecConcurrent: one search_graph call taken statement by statement, each*)
(* statement one transaction of the store, while other requests           *)
(* (create_node, create_edge, delete_edge, delete_node; one statement     *)
(* each) run in between.  Every node is created under the one label "a",  *)
(* so that an identifier names one node.  search.states collects the      *)
(* store's states from the call's start to its return; search.others      *)
(* counts the requests that ran meanwhile, at most MaxOthers.              *)
(***************************************************************************)
InFlight == {"first", "second", "fallback"}

\* The NodeCreate bodies of the other requests: one label, two property maps.
OtherNodeCreates ==
    [id : NodeIds, label : {<<"a">>}, properties : {[name |-> "Alice"], [name |-> "Bob"]}]

\* The store as one statement sees it.
StoreState(ns, es) == [nodes |-> ns, edges |-> es]

\* def search_graph(self, start_id, depth=1): the call starts.
SearchCall(start_id) ==
    /\ search.pc \in {"idle", "done"}
    /\ search' = [pc |-> "first", start_id |-> start_id, others |-> 0,
                  states |-> {StoreState(nodes, edges)}, out |-> NoResp]
    /\ UNCHANGED <<nodes, edges, uuid, repo, resp, label_in, token>>

\* The first statement: its rows are assembled and dropped; no row sends
\* the call to get_node.
SearchFirst ==
    /\ search.pc = "first"
    /\ \E starts \in match_id(nodes, search.start_id) :
          LET records == match_neighbors(starts, nodes, edges)
          IN  search' = [search EXCEPT
                            !.pc = IF records = <<>> THEN "fallback" ELSE "second"]
    /\ UNCHANGED <<nodes, edges, uuid, repo, resp, label_in, token>>

\* The refined statement: its rows make the response; no row sends the
\* call to get_node.
SearchSecond ==
    /\ search.pc = "second"
    /\ \E starts \in match_id(nodes, search.start_id) :
          LET records == match_neighbors(starts, nodes, edges)
          IN  search' = IF records = <<>>
                        THEN [search EXCEPT !.pc = "fallback"]
                        ELSE [search EXCEPT !.pc = "done",
                                            !.out = GraphSearchResponse(records)]
    /\ UNCHANGED <<nodes, edges, uuid, repo, resp, label_in, token>>

\* start_node = self.get_node(start_id): a statement of its own.
SearchFallback ==
    /\ search.pc = "fallback"
    /\ \E records \in match_id(nodes, search.start_id) :
          search' = [search EXCEPT
                        !.pc = "done",
                        !.out = [nodes         |-> get_node(records, search.start_id).out,
                                 relationships |-> <<>>]]
    /\ UNCHANGED <<nodes, edges, uuid, repo, resp, label_in, token>>

\* Another request runs its statement; its response goes to its own caller.
\* A search_graph call that has returned is forgotten.
Other(r) ==
    /\ search.pc \in InFlight => search.others < MaxOthers
    /\ nodes' = r.nodes
    /\ edges' = r.edges
    /\ uuid' = r.uuid
    /\ search' = IF search.pc \in InFlight
                 THEN [search EXCEPT !.others = @ + 1,
                                     !.states = @ \cup {StoreState(r.nodes, r.edges)}]
                 ELSE NoSearch
    /\ UNCHANGED <<repo, resp, label_in, token>>

ConcurrentNext ==
    \/ \E id \in NodeIds : SearchCall(id)
    \/ SearchFirst
    \/ SearchSecond
    \/ SearchFallback
    \/ \E n \in OtherNodeCreates : Other(create_node(n.id, n.label, n.properties))
    \/ \E s \in NodeIds, t \in NodeIds, ty \in Types, w \in Weights :
       \E as \in match_id(nodes, s), bs \in match_id(nodes, t) :
          uuid < MaxUuid /\ Other(create_edge(as, bs, s, t, ty, w))
    \/ \E e \in EdgeIds : Other(delete_edge(e))
    \/ \E id \in NodeIds : Other(delete_node(id))

SpecConcurrent == Init /\ [][ConcurrentNext]_vars

(***************************************************************************)
(* Claims.                                                                 *)
(***************************************************************************)
EdgeSet == {edges[i] : i \in 1..Len(edges)}

\* The relationship has an end whose "id" is id.
Touches(e, id) == e.src[2] = id \/ e.dst[2] = id

\* The relationship as a search reports it when it reports its direction.
AsReported(e) == [source |-> e.src[2], target |-> e.dst[2], type |-> e.type]

Reported(e, rels) == \E i \in 1..Len(rels) : rels[i] = AsReported(e)

\* The rows (start)-[r]-(neighbor) the store has for a start identifier.
RowCount(id) ==
    Cardinality({p \in {n \in nodes : n.id = id} \X (1..Len(edges)) :
                    edges[p[2]].src = NodeKey(p[1]) \/ edges[p[2]].dst = NodeKey(p[1])})

\* What create_edge leaves in the store is source_id -> target_id of the type.
CreatedAsAsked ==
    resp.op = "create_edge" =>
        \A e \in EdgeSet :
            e.id = resp.out.id =>
                /\ e.src[2] = resp.args.source_id
                /\ e.dst[2] = resp.args.target_id
                /\ e.type = resp.args.type

\* C1 as stated: for every edge A->B of type T that create_edge made,
\* search_graph from A and search_graph from B each report a relationship
\* with source = A, target = B and type = T.
C1_EveryEdgeReported ==
    /\ CreatedAsAsked
    /\ resp.op = "search_graph" =>
          \A e \in EdgeSet :
              Touches(e, resp.args.start_id) => Reported(e, resp.out.relationships)

\* C1 amended: every relationship search_graph reports is a stored edge at
\* the start identifier with the stored source, target and type, whichever
\* end the search started from; and when the start identifier has at most
\* 50 rows (the statement's LIMIT), every edge at it is reported so.
C1_DirectionFromStore ==
    /\ CreatedAsAsked
    /\ resp.op = "search_graph" =>
          /\ \A i \in 1..Len(resp.out.relationships) :
                \E e \in EdgeSet :
                    /\ Touches(e, resp.args.start_id)
                    /\ resp.out.relationships[i] = AsReported(e)
          /\ Len(resp.out.relationships) <= SearchLimit
          /\ RowCount(resp.args.start_id) <= SearchLimit =>
                \A e \in EdgeSet :
                    Touches(e, resp.args.start_id) =>
                        Reported(e, resp.out.relationships)

\* C1's case: a search started at the target end of an edge reports it with
\* the source first.
C1_Witness ==
    /\ resp.op = "search_graph"
    /\ \E e \in EdgeSet :
          /\ e.dst[2] = resp.args.start_id
          /\ e.src[2] # resp.args.start_id
          /\ Reported(e, resp.out.relationships)

\* C2: when no relationship touches the start identifier, search_graph
\* returns no relationship, and as nodes exactly the start node if a node
\* has that identifier and nothing if none has.
C2_IsolatedOrUnknownStart ==
    (resp.op = "search_graph" /\ \A e \in EdgeSet : ~Touches(e, resp.args.start_id)) =>
        /\ resp.out.relationships = <<>>
        /\ IF \E n \in nodes : n.id = resp.args.start_id
           THEN /\ Len(resp.out.nodes) = 1
                /\ \E n \in nodes :
                      /\ n.id = resp.args.start_id
                      /\ resp.out.nodes[1] =
                            [id |-> n.id, label |-> n.label, properties |-> n.props]
           ELSE resp.out.nodes = <<>>

\* C2's case: a search started at a node that has no relationship, in a
\* store that has relationships elsewhere.
C2_Witness ==
    /\ resp.op = "search_graph"
    /\ \E n \in nodes : n.id = resp.args.start_id
    /\ \A e \in EdgeSet : ~Touches(e, resp.args.start_id)
    /\ EdgeSet # {}
    /\ Len(resp.out.nodes) = 1

\* A property map is the later map laid over the earlier one.
MergedOver(props, old, new) ==
    /\ DOMAIN props = (DOMAIN old) \cup (DOMAIN new)
    /\ \A k \in DOMAIN new : props[k] = new[k]
    /\ \A k \in (DOMAIN old) \ (DOMAIN new) : props[k] = old[k]

\* C3 as stated: create_node is an upsert by the identifier alone: after it
\* the store has one node of that identifier, and if one was there before,
\* its properties are the earlier ones overwritten key by key by the call's.
C3_UpsertByIdentifier ==
    [][resp'.op = "create_node" =>
          /\ \A n, m \in nodes' : n.id = m.id => n = m
          /\ \A m \in nodes :
                m.id = resp'.args.id =>
                    \E n \in nodes' :
                        /\ n.id = m.id
                        /\ MergedOver(n.props, m.props, resp'.args.properties)]_vars

\* create_node on a node of the same label and identifier: still one such
\* node, its properties the call's laid over the earlier ones.
MergeWithinLabel ==
    [][resp'.op = "create_node" =>
          \A m \in nodes :
              (m.id = resp'.args.id /\ m.label = resp'.args.label) =>
                  /\ Cardinality(nodes') = Cardinality(nodes)
                  /\ \E n \in nodes' :
                        /\ NodeKey(n) = NodeKey(m)
                        /\ MergedOver(n.props, m.props, resp'.args.properties)]_vars

\* The edges from an identifier to an identifier of a type.
EdgesBetween(es, source_id, target_id, type) ==
    {i \in 1..Len(es) :
        es[i].src[2] = source_id /\ es[i].dst[2] = target_id /\ es[i].type = type}

\* C4 as stated: a second create_edge with the same source, target, type and
\* weight leaves one edge source->target of the type, the same as after the
\* first call, under the identifier the first call returned.
C4_CreateEdgeIdempotent ==
    [][(/\ resp.op = "create_edge"
        /\ resp'.op = "create_edge"
        /\ resp'.args = resp.args
        /\ resp'.found > 0) =>
          /\ Cardinality(EdgesBetween(edges', resp.args.source_id,
                                      resp.args.target_id, resp.args.type)) = 1
          /\ edges' = edges
          /\ \E i \in 1..Len(edges') : edges'[i].id = resp.out.id]_vars

\* C5: both ends of every stored edge are stored nodes; create_edge with a
\* missing source or target answers "created" and makes no edge; after
\* delete_node no edge has an end at the deleted identifier.
C5_EndpointsExist ==
    /\ \A e \in EdgeSet :
          /\ \E n \in nodes : NodeKey(n) = e.src
          /\ \E n \in nodes : NodeKey(n) = e.dst
    /\ (/\ resp.op = "create_edge"
        /\ \/ \A n \in nodes : n.id # resp.args.source_id
           \/ \A n \in nodes : n.id # resp.args.target_id) =>
          /\ resp.out.status = "created"
          /\ \A e \in EdgeSet : e.id # resp.out.id
    /\ resp.op = "delete_node" =>
          /\ \A n \in nodes : n.id # resp.args.node_id
          /\ \A e \in EdgeSet : ~Touches(e, resp.args.node_id)

\* C5's case: create_edge to a missing target, from a source that exists
\* and has edges.
C5_Witness ==
    /\ resp.op = "create_edge"
    /\ \E n \in nodes : n.id = resp.args.source_id
    /\ \A n \in nodes : n.id # resp.args.target_id
    /\ \E e \in EdgeSet : Touches(e, resp.args.source_id)
    /\ resp.out.status = "created"

\* C6: delete_node of an identifier no node has, and delete_edge of an
\* identifier no edge has, answer "deleted" with the identifier and change
\* neither the nodes nor the edges.
C6_DeleteMissingChangesNothing ==
    [][/\ (resp'.op = "delete_node" /\ \A n \in nodes : n.id # resp'.args.node_id) =>
             /\ nodes' = nodes
             /\ edges' = edges
             /\ resp'.out = [status |-> "deleted", id |-> resp'.args.node_id]
       /\ (resp'.op = "delete_edge" /\ \A e \in EdgeSet : e.id # resp'.args.edge_id) =>
             /\ nodes' = nodes
             /\ edges' = edges
             /\ resp'.out = [status |-> "deleted", id |-> resp'.args.edge_id]]_vars

\* C6's case: delete_edge of an identifier that matched nothing, in a store
\* that has edges.
C6_Witness ==
    /\ resp.op = "delete_edge"
    /\ resp.found = 0
    /\ EdgeSet # {}
    /\ resp.out = [status |-> "deleted", id |-> resp.args.edge_id]

\* C7 as stated: update_edge answers "updated" when the edge exists and a
\* weight is given, and what it returns when no weight is given differs from
\* what it returns for a weight and an identifier no edge has (0 here).
C7_NoOpIsNotNotFound ==
    resp.op = "update_edge" =>
        /\ (resp.args.weight # None /\ \E e \in EdgeSet : e.id = resp.args.edge_id) =>
              /\ resp.out # <<>>
              /\ resp.out[1].status = "updated"
              /\ resp.out[1].weight = resp.args.weight
        /\ resp.args.weight = None => resp.out # update_edge(0, <<>>, "2.5").out

\* C8 as stated: POST /edges between existing nodes answers an identifier,
\* PUT /edges/{id} with a weight then answers 200 with that weight, and
\* DELETE /edges/{id} answers 200 "deleted" and the edge is gone.
C8_EdgeCrudOverHttp ==
    [][resp'.op = "request" =>
          /\ (resp'.route = <<"POST", "/edges">> /\ resp'.status = 200) =>
                resp'.body.id \in 1..uuid'
          /\ (/\ resp'.route = <<"PUT", "/edges/{edge_id}">>
              /\ resp'.args.weight # None
              /\ \E e \in EdgeSet : e.id = resp'.args.edge_id) =>
                /\ resp'.status = 200
                /\ resp'.body.weight = resp'.args.weight
          /\ (/\ resp'.route = <<"DELETE", "/edges/{edge_id}">>
              /\ \E e \in EdgeSet : e.id = resp'.args.edge_id) =>
                /\ resp'.status = 200
                /\ resp'.body.status = "deleted"
                /\ \A i \in 1..Len(edges') : edges'[i].id # resp'.args.edge_id]_vars

\* C9 as stated: on every route, an exception of the repository call is
\* answered 500 with the exception's message as detail; a missing node on
\* GET /nodes/{id} is 404; a request before the repository is there is 503.
C9_ErrorsMapped ==
    (resp.op = "request" /\ resp.route \in Routes) =>
        /\ repo = "None" => resp.status = 503
        /\ (repo # "None" /\ resp.exc # NoExc) =>
              /\ resp.status = 500
              /\ resp.detail = resp.exc
        /\ (/\ repo # "None"
            /\ resp.exc = NoExc
            /\ resp.route = <<"GET", "/nodes/{node_id}">>
            /\ \A n \in nodes : n.id # resp.args.node_id) => resp.status = 404

\* How often the backtick occurs in a string.
RECURSIVE Backticks(_)
Backticks(s) ==
    IF s = <<>> THEN 0
    ELSE (IF Head(s) = Backtick THEN 1 ELSE 0) + Backticks(Tail(s))

\* The characters between the first and the last.
Inside(t) == SubSeq(t, 2, Len(t) - 1)

\* The doubled backticks of a string collapsed, each to one.
RECURSIVE Collapse(_)
Collapse(s) ==
    IF Len(s) >= 2 /\ s[1] = Backtick /\ s[2] = Backtick
    THEN <<Backtick>> \o Collapse(Tail(Tail(s)))
    ELSE IF s = <<>> THEN <<>>
    ELSE <<Head(s)>> \o Collapse(Tail(s))

\* The token of a string: in backticks, every backtick of the string doubled
\* in between, and the string again once the outer backticks are stripped
\* and the doubled ones collapsed.
Escaped(s, t) ==
    /\ Len(t) >= 2
    /\ t[1] = Backtick
    /\ t[Len(t)] = Backtick
    /\ Len(Inside(t)) = Len(s) + Backticks(s)
    /\ Backticks(Inside(t)) = 2 * Backticks(s)
    /\ Collapse(Inside(t)) = s

\* _sanitize_label alone, on every string of at most MaxLen characters.
SanitizeEscapes == token # <<>> => Escaped(label_in, token)

\* C10 as stated: the token of a label is the label escaped, so a node
\* created with label s is read back by get_node with label s.
C10_LabelReadBack ==
    [][/\ resp'.op = "create_node" =>
             Escaped(resp'.args.label, sanitize_label(resp'.args.label))
       /\ (/\ resp.op = "create_node"
           /\ resp'.op = "get_node"
           /\ resp'.args.node_id = resp.args.id) =>
             /\ resp'.out # <<>>
             /\ resp'.out[1].label = resp.args.label]_vars

\* The relationships at a node, in store order.
RelsAt(n) == SelectSeq(edges, LAMBDA e : e.src = NodeKey(n) \/ e.dst = NodeKey(n))

\* The node at the other end of a relationship at a node.
FarEnd(n, e) ==
    CHOOSE m \in nodes : NodeKey(m) = (IF e.src = NodeKey(n) THEN e.dst ELSE e.src)

\* The rows the store matches for the start nodes in the order it scans
\* them: a start node and a relationship at it.
RECURSIVE MatchedRows(_)
MatchedRows(starts) ==
    IF starts = <<>> THEN <<>>
    ELSE [i \in 1..Len(RelsAt(Head(starts))) |-> <<Head(starts), RelsAt(Head(starts))[i]>>]
         \o MatchedRows(Tail(starts))

\* The rows that come back: the first 50 of the matched ones.
ReturnedRows(starts) ==
    SubSeq(MatchedRows(starts), 1, Min(Len(MatchedRows(starts)), SearchLimit))

\* The nodes of the rows as the response's loop sees them: a row's start
\* node, then its far-end node.
RowNodes(rows) ==
    [k \in 1..(2 * Len(rows)) |->
        IF k % 2 = 1 THEN rows[(k + 1) \div 2][1]
        ELSE FarEnd(rows[k \div 2][1], rows[k \div 2][2])]

\* The entry of a stored node in a response.
Entry(n) == [id |-> n.id, label |-> n.label, properties |-> n.props]

\* Where an identifier is first seen among the nodes of the rows.
FirstSeen(seen, id) ==
    CHOOSE k \in 1..Len(seen) :
        seen[k].id = id /\ \A j \in 1..(k - 1) : seen[j].id # id

\* C11 as stated: when search_graph returns a relationship, its node list
\* has no two entries of one identifier, has the start identifier first, is
\* exactly the start node and the far-end node of every returned row, in
\* first-seen order; and its relationship list is the returned rows, one
\* entry a row, in store order, at most 50.
C11_SearchResultShape ==
    (resp.op = "search_graph" /\ resp.out.relationships # <<>>) =>
        \E starts \in ScanOrders({n \in nodes : n.id = resp.args.start_id}) :
            LET rows == ReturnedRows(starts)
                seen == RowNodes(rows)
                out  == resp.out
            IN  /\ Len(out.relationships) = Len(rows)
                /\ Len(out.relationships) <= SearchLimit
                /\ \A i \in 1..Len(rows) : out.relationships[i] = AsReported(rows[i][2])
                /\ \A i, j \in 1..Len(out.nodes) :
                      out.nodes[i].id = out.nodes[j].id => i = j
                /\ out.nodes[1].id = resp.args.start_id
                /\ {out.nodes[i] : i \in 1..Len(out.nodes)} =
                      {Entry(seen[k]) : k \in 1..Len(seen)}
                /\ \A i, j \in 1..Len(out.nodes) :
                      i < j => FirstSeen(seen, out.nodes[i].id)
                                  < FirstSeen(seen, out.nodes[j].id)

\* The part of C11 that is about identifiers alone: the identifiers of the
\* node list are those of the returned rows' nodes, each once, first seen
\* first.
SearchResultShapeById ==
    (resp.op = "search_graph" /\ resp.out.relationships # <<>>) =>
        \E starts \in ScanOrders({n \in nodes : n.id = resp.args.start_id}) :
            LET rows == ReturnedRows(starts)
                seen == RowNodes(rows)
                out  == resp.out
            IN  /\ \A i \in 1..Len(rows) : out.relationships[i] = AsReported(rows[i][2])
                /\ Len(out.relationships) = Len(rows)
                /\ \A i, j \in 1..Len(out.nodes) :
                      out.nodes[i].id = out.nodes[j].id => i = j
                /\ {out.nodes[i].id : i \in 1..Len(out.nodes)} =
                      {seen[k].id : k \in 1..Len(seen)}
                /\ \A i \in 1..Len(out.nodes) :
                      out.nodes[i] = Entry(seen[FirstSeen(seen, out.nodes[i].id)])
                /\ \A i, j \in 1..Len(out.nodes) :
                      i < j => FirstSeen(seen, out.nodes[i].id)
                                  < FirstSeen(seen, out.nodes[j].id)

\* The one-hop neighborhood of an identifier in a store state: the nodes of
\* the identifier and the nodes at the far end of the relationships at them,
\* and those relationships, with source, target and type.
OneHop(st, id) ==
    LET es   == {st.edges[i] : i \in 1..Len(st.edges)}
        at   == {e \in es : Touches(e, id)}
        ends == {e.src : e \in at} \cup {e.dst : e \in at}
    IN  [nodes         |-> {Entry(n) : n \in {m \in st.nodes :
                                                 m.id = id \/ NodeKey(m) \in ends}},
         relationships |-> {AsReported(e) : e \in at}]

\* The nodes and the relationships of a response.
Returned(out) ==
    [nodes         |-> {out.nodes[i] : i \in 1..Len(out.nodes)},
     relationships |-> {out.relationships[i] : i \in 1..Len(out.relationships)}]

\* search_graph as one statement answers with the one-hop neighborhood of
\* the store it ran on, as long as no more than 50 rows match.
AtomicSearchIsOneHop ==
    (resp.op = "search_graph" /\ RowCount(resp.args.start_id) <= SearchLimit) =>
        Returned(resp.out) = OneHop(StoreState(nodes, edges), resp.args.start_id)

\* C12 as stated: whatever requests run in between, what a search_graph call
\* returns is the one-hop neighborhood of its start identifier in one store
\* state that existed between the call's start and its return.
C12_SearchSeesOneState ==
    search.pc = "done" =>
        \E st \in search.states : Returned(search.out) = OneHop(st, search.start_id)

=============================================================================
